---- MODULE Spec2Model ----
(***************************************************************************)
(* CCLib::PointCloud (CC/src/PointCloud.cpp): an indexed sequence of 3D    *)
(* points, a collection of named scalar fields, two scalar-field roles     *)
(* (current input / current output), a lazily recomputed bounding box and  *)
(* a forward point cursor.                                                 *)
(*                                                                         *)
(* C++ indices are 0-based and are kept 0-based in every operation's       *)
(* arguments and in the role indices; TLA+ sequences are 1-based, so slot  *)
(* i of a container c is c[i + 1].                                         *)
(***************************************************************************)
EXTENDS Integers, Sequences, FiniteSets, TLC

VARIABLES
    m_points,                       \* std::vector<CCVector3>: the points
    ptCapacity,                     \* m_points.capacity()
    m_scalarFields,                 \* std::vector<ScalarField*>: the owned fields
    sfCapacity,                     \* m_scalarFields.capacity()
    m_currentInScalarFieldIndex,    \* role: current input field, or -1
    m_currentOutScalarFieldIndex,   \* role: current output field, or -1
    m_currentPointIndex,            \* cursor of getNextPoint
    m_bbox,                         \* cached bounding box
    live,                           \* ScalarField objects created and not yet released
    lastOp,                         \* the last call: its name and arguments
                                    \* (swapPoints: also the cloud before it)
    ret                             \* what the last call returned

vars == << m_points, ptCapacity, m_scalarFields, sfCapacity,
           m_currentInScalarFieldIndex,
           m_currentOutScalarFieldIndex, m_currentPointIndex, m_bbox, live,
           lastOp, ret >>

(***************************************************************************)
(* Bounds of the model.                                                    *)
(***************************************************************************)
MaxPts == 2         \* most points a behaviour holds
MaxCap == 3         \* largest capacity a vector is given
MaxFields == 2      \* most scalar fields a behaviour owns
MaxLeak == 1        \* most ScalarField objects a behaviour leaves unowned
MaxCoord == 2       \* largest coordinate a transformation may produce

(***************************************************************************)
(* Values.                                                                 *)
(***************************************************************************)
NaN == -99                          \* stands for a not-a-number component
IsNaN(x) == x = NaN                 \* the test  x != x
Zero3 == << 0, 0, 0 >>              \* CCVector3(0, 0, 0), also CCVector3()

SetMin(S) == CHOOSE m \in S : \A x \in S : m <= x
SetMax(S) == CHOOSE m \in S : \A x \in S : m >= x
Min2(a, b) == IF a <= b THEN a ELSE b
Max2(a, b) == IF a >= b THEN a ELSE b

\* a call's outcome: a returned value, or an exception that left the call
Returned(v) == [threw |-> FALSE, val |-> v]
Threw(what) == [threw |-> TRUE, val |-> what]
Void == Returned("void")

(***************************************************************************)
(* std::vector                                                             *)
(***************************************************************************)
\* v.resize(n): the first n elements kept, new elements value-initialised
VectorResize(v, n, fill) == [k \in 1..n |-> IF k <= Len(v) THEN v[k] ELSE fill]

\* The capacity a vector may have after growing to hold `need` elements: the
\* standard only promises capacity >= need; an exact fit and a doubling are
\* the two policies modelled.
GrowthChoices(cap, need) ==
    IF need <= cap THEN {cap}
    ELSE {c \in {need, 2 * cap} : c >= need /\ c <= MaxCap}

\* std::swap(v[i], v[j]), both slots existing (0-based)
VectorSwap(v, i, j) ==
    [k \in 1..Len(v) |-> IF k = i + 1 THEN v[j + 1]
                         ELSE IF k = j + 1 THEN v[i + 1] ELSE v[k]]

(***************************************************************************)
(* ScalarField: a named std::vector of scalars with stored min/max.       *)
(***************************************************************************)
\* new ScalarField(name)
NewScalarField(name) ==
    [name |-> name, vals |-> << >>, cap |-> 0, minVal |-> 0, maxVal |-> 0]

\* ScalarField::computeMinAndMax
computeMinAndMax(sf) ==
    IF Len(sf.vals) = 0
    THEN [sf EXCEPT !.minVal = 0, !.maxVal = 0]
    ELSE [sf EXCEPT !.minVal = SetMin({sf.vals[k] : k \in 1..Len(sf.vals)}),
                    !.maxVal = SetMax({sf.vals[k] : k \in 1..Len(sf.vals)})]

\* ScalarField::resizeSafe(count): the outcomes, each [ok, sf].  The
\* allocation can fail only when count exceeds the capacity; a failure
\* leaves the field as it was.
resizeSafe(sf, count) ==
    { [ok |-> TRUE,
       sf |-> [sf EXCEPT !.vals = VectorResize(sf.vals, count, 0), !.cap = c]]
        : c \in GrowthChoices(sf.cap, count) }
    \cup (IF count > sf.cap THEN {[ok |-> FALSE, sf |-> sf]} ELSE {})

\* ScalarField::reserveSafe(count): the outcomes, each [ok, sf]
reserveSafe(sf, count) ==
    { [ok |-> TRUE, sf |-> [sf EXCEPT !.cap = c]]
        : c \in GrowthChoices(sf.cap, count) }
    \cup (IF count > sf.cap THEN {[ok |-> FALSE, sf |-> sf]} ELSE {})

(***************************************************************************)
(* BoundingBox                                                             *)
(***************************************************************************)
\* BoundingBox::clear
BBoxClear == [valid |-> FALSE, minCorner |-> Zero3, maxCorner |-> Zero3]

\* BoundingBox::add(P)
BBoxAdd(bb, P) ==
    IF bb.valid
    THEN [valid |-> TRUE,
          minCorner |-> [c \in 1..3 |-> Min2(bb.minCorner[c], P[c])],
          maxCorner |-> [c \in 1..3 |-> Max2(bb.maxCorner[c], P[c])]]
    ELSE [valid |-> TRUE, minCorner |-> P, maxCorner |-> P]

\* the loop of getBoundingBox: for (P : m_points) m_bbox.add(P), from point k on
RECURSIVE BBoxFold(_, _, _)
BBoxFold(bb, pts, k) ==
    IF k > Len(pts) THEN bb ELSE BBoxFold(BBoxAdd(bb, pts[k]), pts, k + 1)

(***************************************************************************)
(* Reading helpers of PointCloud                                           *)
(***************************************************************************)
size == Len(m_points)
sfCount == Len(m_scalarFields)

\* getScalarFieldIndexByName over a field collection: first match, or -1
IndexByName(sfs, name) ==
    IF \E k \in 1..Len(sfs) : sfs[k].name = name
    THEN SetMin({k \in 1..Len(sfs) : sfs[k].name = name}) - 1
    ELSE -1

getScalarFieldIndexByName(name) == IndexByName(m_scalarFields, name)

\* getScalarField(index) != 0
HasScalarField(index) == index >= 0 /\ index < sfCount

Init ==
    /\ m_points = << >>
    /\ ptCapacity = 0
    /\ m_scalarFields = << >>
    /\ sfCapacity = 0
    /\ m_currentInScalarFieldIndex = -1
    /\ m_currentOutScalarFieldIndex = -1
    /\ m_currentPointIndex = 0
    /\ m_bbox = BBoxClear
    /\ live = 0
    /\ lastOp = [op |-> "PointCloud"]
    /\ ret = Void


(***************************************************************************)
(* Points: addPoint, getBoundingBox, clear                                 *)
(***************************************************************************)
\* StoredPoint with the z component left out of the NaN test
StoredPoint_XYOnly(P) ==
    IF IsNaN(P[1]) \/ IsNaN(P[2]) THEN Zero3 ELSE P

\* the point addPoint stores for argument P: (0,0,0) if a component is NaN
StoredPoint(P) ==
    IF IsNaN(P[1]) \/ IsNaN(P[2]) \/ IsNaN(P[3]) THEN Zero3 ELSE P

\* PointCloud::invalidateBoundingBox, m_bbox.setValidity(false)
Invalidated(bb) == [bb EXCEPT !.valid = FALSE]

\* what addPoint leaves in the bounding-box cache
BBoxAfterAddPoint(bb) == Invalidated(bb)

\* PointCloud::addPoint(P)
addPoint(P) ==
    /\ \E c \in GrowthChoices(ptCapacity, size + 1) : ptCapacity' = c
    /\ m_points' = Append(m_points, StoredPoint(P))
    /\ m_bbox' = BBoxAfterAddPoint(m_bbox)
    /\ lastOp' = [op |-> "addPoint", P |-> P]
    /\ ret' = Void
    /\ UNCHANGED << m_scalarFields, sfCapacity, m_currentInScalarFieldIndex,
                    m_currentOutScalarFieldIndex, m_currentPointIndex, live >>

\* the box getBoundingBox leaves in the cache
BBoxRefreshed(bb, pts) == IF ~bb.valid THEN BBoxFold(BBoxClear, pts, 1) ELSE bb

\* PointCloud::getBoundingBox(bbMin, bbMax): returns the two corners
getBoundingBox ==
    /\ m_bbox' = BBoxRefreshed(m_bbox, m_points)
    /\ lastOp' = [op |-> "getBoundingBox"]
    /\ ret' = Returned(<< m_bbox'.minCorner, m_bbox'.maxCorner >>)
    /\ UNCHANGED << m_points, ptCapacity, m_scalarFields, sfCapacity,
                    m_currentInScalarFieldIndex, m_currentOutScalarFieldIndex,
                    m_currentPointIndex, live >>

\* a release loop that stops with one field left
DeleteAllFields_LeavesOne ==
    /\ m_currentInScalarFieldIndex' = -1
    /\ m_currentOutScalarFieldIndex' = -1
    /\ live' = live - (sfCount - Min2(1, sfCount))
    /\ m_scalarFields' = SubSeq(m_scalarFields, 1, Min2(1, sfCount))

\* PointCloud::deleteAllScalarFields, as a part of an action
DeleteAllFields ==
    /\ m_currentInScalarFieldIndex' = -1
    /\ m_currentOutScalarFieldIndex' = -1
    /\ live' = live - sfCount
    /\ m_scalarFields' = << >>

\* PointCloud::deleteAllScalarFields()
deleteAllScalarFields ==
    /\ DeleteAllFields
    /\ lastOp' = [op |-> "deleteAllScalarFields"]
    /\ ret' = Void
    /\ UNCHANGED << m_points, ptCapacity, sfCapacity, m_currentPointIndex,
                    m_bbox >>

\* PointCloud::clear()
clear ==
    /\ m_points' = << >>
    /\ DeleteAllFields
    /\ m_currentPointIndex' = 0
    /\ m_bbox' = Invalidated(m_bbox)
    /\ lastOp' = [op |-> "clear",
                  before |-> [size |-> size, fields |-> sfCount,
                              cursor |-> m_currentPointIndex,
                              valid |-> m_bbox.valid]]
    /\ ret' = Void
    /\ UNCHANGED << ptCapacity, sfCapacity >>

(***************************************************************************)
(* resize, reserve                                                         *)
(***************************************************************************)
\* the count resize rolls an already processed field back to
RollbackCount(oldCount, sf) == oldCount

\* resize, lines 111-115: fields j..i-1 (1-based) are resized back with the
\* plain resize, which throws when it has to allocate and cannot.
RECURSIVE ResizeRollback(_, _, _, _)
ResizeRollback(sfs, j, i, oldCount) ==
    IF j >= i THEN {[sfs |-> sfs, res |-> "false"]}
    ELSE LET n == RollbackCount(oldCount, sfs[j])
         IN  (IF n > sfs[j].cap
              THEN {[sfs |-> sfs, res |-> "bad_alloc"]} ELSE {})
             \cup UNION {
                ResizeRollback(
                    [sfs EXCEPT ![j] = computeMinAndMax(
                        [@ EXCEPT !.vals = VectorResize(@, n, 0), !.cap = c])],
                    j + 1, i, oldCount)
                : c \in GrowthChoices(sfs[j].cap, n) }

\* ResizeFields without the computeMinAndMax of line 120
RECURSIVE ResizeFields_StaleStats(_, _, _, _)
ResizeFields_StaleStats(sfs, i, newCount, oldCount) ==
    IF i > Len(sfs) THEN {[sfs |-> sfs, res |-> "true", failedAt |-> -1]}
    ELSE UNION {
        IF o.ok
        THEN ResizeFields_StaleStats([sfs EXCEPT ![i] = o.sf],
                                     i + 1, newCount, oldCount)
        ELSE { [sfs |-> r.sfs, res |-> r.res, failedAt |-> i - 1]
                 : r \in ResizeRollback(sfs, 1, i, oldCount) }
        : o \in resizeSafe(sfs[i], newCount) }

\* ResizeFields with a loop that stops before the last field
RECURSIVE ResizeFields_SkipLast(_, _, _, _)
ResizeFields_SkipLast(sfs, i, newCount, oldCount) ==
    IF i >= Len(sfs) THEN {[sfs |-> sfs, res |-> "true", failedAt |-> -1]}
    ELSE UNION {
        IF o.ok
        THEN ResizeFields_SkipLast([sfs EXCEPT ![i] = computeMinAndMax(o.sf)],
                                   i + 1, newCount, oldCount)
        ELSE { [sfs |-> r.sfs, res |-> r.res, failedAt |-> i - 1]
                 : r \in ResizeRollback(sfs, 1, i, oldCount) }
        : o \in resizeSafe(sfs[i], newCount) }

\* resize, lines 106-121: the loop over the fields from field i (1-based) on.
\* Outcomes [sfs, res, failedAt]: res is "true", "false" (a field failed and
\* the others were rolled back) or "bad_alloc" (the rollback threw).
RECURSIVE ResizeFields(_, _, _, _)
ResizeFields(sfs, i, newCount, oldCount) ==
    IF i > Len(sfs) THEN {[sfs |-> sfs, res |-> "true", failedAt |-> -1]}
    ELSE UNION {
        IF o.ok
        THEN ResizeFields([sfs EXCEPT ![i] = computeMinAndMax(o.sf)],
                          i + 1, newCount, oldCount)
        ELSE { [sfs |-> r.sfs, res |-> r.res, failedAt |-> i - 1]
                 : r \in ResizeRollback(sfs, 1, i, oldCount) }
        : o \in resizeSafe(sfs[i], newCount) }

\* PointCloud::resize(newCount) on a cloud (pts, cap, sfs): the outcomes
\* [points, cap, sfs, ret, failedAt]; failedAt is -1 (nothing failed), -2 (the
\* point sequence) or the 0-based index of the field whose resizeSafe failed.
ResizeOutcomes(pts, cap, sfs, newCount) ==
    LET oldCount == Len(pts)
        grown == VectorResize(pts, newCount, Zero3)
    IN  (IF newCount > cap
         THEN {[points |-> pts, cap |-> cap, sfs |-> sfs,
                ret |-> Returned(FALSE), failedAt |-> -2]}
         ELSE {})
        \cup UNION {
            { [points |-> IF f.res = "false"
                          THEN VectorResize(grown, oldCount, Zero3) ELSE grown,
               cap |-> c,
               sfs |-> f.sfs,
               ret |-> IF f.res = "bad_alloc" THEN Threw("bad_alloc")
                       ELSE Returned(f.res = "true"),
               failedAt |-> f.failedAt]
              : f \in ResizeFields(sfs, 1, newCount, oldCount) }
            : c \in GrowthChoices(cap, newCount) }

\* PointCloud::resize(newCount)
resize(newCount) ==
    /\ \E o \in ResizeOutcomes(m_points, ptCapacity, m_scalarFields, newCount) :
         /\ m_points' = o.points
         /\ ptCapacity' = o.cap
         /\ m_scalarFields' = o.sfs
         /\ ret' = o.ret
         /\ lastOp' = [op |-> "resize", newCount |-> newCount,
                       failedAt |-> o.failedAt]
    /\ UNCHANGED << sfCapacity, m_currentInScalarFieldIndex,
                    m_currentOutScalarFieldIndex, m_currentPointIndex, m_bbox,
                    live >>

\* resize(n); resize(m); resize(n) called in a row on a cloud (pts, cap, sfs),
\* stopping at the first call that does not return true: the outcomes
\* [points, cap, sfs, ret, calls], ret being the result of the last call made
\* and calls the number of calls made.
RoundTripOutcomes(pts, cap, sfs, n, m) ==
    LET Ok(o) == ~o.ret.threw /\ o.ret.val = TRUE
        Stop(o, k) == [points |-> o.points, cap |-> o.cap, sfs |-> o.sfs,
                       ret |-> o.ret, calls |-> k]
        third(o2) == { Stop(o3, 3) : o3 \in ResizeOutcomes(o2.points, o2.cap,
                                                           o2.sfs, n) }
        second(o1) == UNION { IF Ok(o2) THEN third(o2) ELSE {Stop(o2, 2)}
                              : o2 \in ResizeOutcomes(o1.points, o1.cap,
                                                      o1.sfs, m) }
    IN  UNION { IF Ok(o1) THEN second(o1) ELSE {Stop(o1, 1)}
                : o1 \in ResizeOutcomes(pts, cap, sfs, n) }

\* resize(n); resize(m); resize(n)
resizeRoundTrip(n, m) ==
    /\ \E o \in RoundTripOutcomes(m_points, ptCapacity, m_scalarFields, n, m) :
         /\ m_points' = o.points
         /\ ptCapacity' = o.cap
         /\ m_scalarFields' = o.sfs
         /\ ret' = o.ret
         /\ lastOp' = [op |-> "resizeRoundTrip", n |-> n, m |-> m,
                       calls |-> o.calls]
    /\ UNCHANGED << sfCapacity, m_currentInScalarFieldIndex,
                    m_currentOutScalarFieldIndex, m_currentPointIndex, m_bbox,
                    live >>

\* a loop over the fields that drops the result of reserveSafe
RECURSIVE ReserveFields_Unchecked(_, _, _)
ReserveFields_Unchecked(sfs, i, newCapacity) ==
    IF i > Len(sfs) THEN {[sfs |-> sfs, ok |-> TRUE]}
    ELSE UNION { ReserveFields_Unchecked([sfs EXCEPT ![i] = o.sf], i + 1,
                                         newCapacity)
                 : o \in reserveSafe(sfs[i], newCapacity) }

\* reserve, lines 139-143: the loop over the fields from field i (1-based) on
RECURSIVE ReserveFields(_, _, _)
ReserveFields(sfs, i, newCapacity) ==
    IF i > Len(sfs) THEN {[sfs |-> sfs, ok |-> TRUE]}
    ELSE UNION {
        IF o.ok
        THEN ReserveFields([sfs EXCEPT ![i] = o.sf], i + 1, newCapacity)
        ELSE {[sfs |-> sfs, ok |-> FALSE]}
        : o \in reserveSafe(sfs[i], newCapacity) }

\* PointCloud::reserve(newCapacity)
reserve(newCapacity) ==
    /\ \/ /\ newCapacity > ptCapacity          \* bad_alloc caught, line 133
          /\ ret' = Returned(FALSE)
          /\ UNCHANGED << ptCapacity, m_scalarFields >>
       \/ \E c \in GrowthChoices(ptCapacity, newCapacity) :
          \E f \in ReserveFields(m_scalarFields, 1, newCapacity) :
            /\ ptCapacity' = c
            /\ m_scalarFields' = f.sfs
            /\ ret' = Returned(f.ok /\ c >= newCapacity)
    /\ lastOp' = [op |-> "reserve", newCapacity |-> newCapacity]
    /\ UNCHANGED << m_points, sfCapacity, m_currentInScalarFieldIndex,
                    m_currentOutScalarFieldIndex, m_currentPointIndex, m_bbox,
                    live >>


(***************************************************************************)
(* Scalar fields: add, delete, rename, enable, roles                       *)
(***************************************************************************)
\* a name test that stops one field short of the end
NameTaken_SkipLast(sfs, uniqueName) ==
    \E k \in 1..(Len(sfs) - 1) : sfs[k].name = uniqueName

\* whether addScalarField refuses uniqueName as already taken
NameTaken(sfs, uniqueName) == IndexByName(sfs, uniqueName) >= 0

\* PointCloud::addScalarField(uniqueName) on a cloud with fields sfs (capacity
\* sfCap), lv live field objects and sz points: the outcomes
\* [sfs, sfCap, live, ret].  (operator new throws instead of returning null,
\* so the test !sf never succeeds.)
AddScalarFieldOutcomes(sfs, sfCap, lv, sz, uniqueName) ==
    IF NameTaken(sfs, uniqueName)
    THEN {[sfs |-> sfs, sfCap |-> sfCap, live |-> lv, ret |-> -1]}
    ELSE UNION {
        IF ~o.ok
        THEN \* line 297: the new field is released
             {[sfs |-> sfs, sfCap |-> sfCap, live |-> lv, ret |-> -1]}
        ELSE \* line 304: m_scalarFields.resize(size + 1, sf)
             {[sfs |-> Append(sfs, o.sf), sfCap |-> Max2(sfCap, Len(sfs) + 1),
               live |-> lv + 1, ret |-> Len(sfs)]}
             \cup (IF Len(sfs) + 1 > sfCap
                   THEN \* line 308: bad_alloc caught, the field is not released
                        {[sfs |-> sfs, sfCap |-> sfCap, live |-> lv + 1,
                          ret |-> -1]}
                   ELSE {})
        : o \in (IF sz # 0 THEN resizeSafe(NewScalarField(uniqueName), sz)
                 ELSE {[ok |-> TRUE, sf |-> NewScalarField(uniqueName)]}) }

\* PointCloud::addScalarField(uniqueName)
addScalarField(uniqueName) ==
    /\ \E o \in AddScalarFieldOutcomes(m_scalarFields, sfCapacity, live, size,
                                       uniqueName) :
         /\ m_scalarFields' = o.sfs
         /\ sfCapacity' = o.sfCap
         /\ live' = o.live
         /\ ret' = Returned(o.ret)
    /\ lastOp' = [op |-> "addScalarField", name |-> uniqueName]
    /\ UNCHANGED << m_points, ptCapacity, m_currentInScalarFieldIndex,
                    m_currentOutScalarFieldIndex, m_currentPointIndex, m_bbox >>

\* RoleAfterDelete without the remapping of lines 333-336
RoleAfterDelete_NoRemap(role, index, sfCnt) ==
    IF index = role THEN -1 ELSE role

\* deleteScalarField, lines 322-337: a role index after the deletion of the
\* field at index among sfCnt fields
RoleAfterDelete(role, index, sfCnt) ==
    LET cleared == IF index = role THEN -1 ELSE role
        lastIndex == sfCnt - 1
    IN  IF index < lastIndex /\ lastIndex = cleared THEN index ELSE cleared

\* FieldsAfterDelete without the swap of line 331: the last field is popped
FieldsAfterDelete_NoSwap(sfs, index) == SubSeq(sfs, 1, Len(sfs) - 1)

\* deleteScalarField, lines 328-341: the fields after the deletion of the
\* field at index (swapped with the last one, then popped)
FieldsAfterDelete(sfs, index) ==
    LET lastIndex == Len(sfs) - 1
        swapped == IF index < lastIndex THEN VectorSwap(sfs, index, lastIndex)
                   ELSE sfs
    IN  SubSeq(swapped, 1, Len(sfs) - 1)

\* PointCloud::deleteScalarField(index)
deleteScalarField(index) ==
    /\ IF index < 0 \/ index >= sfCount
       THEN UNCHANGED << m_scalarFields, m_currentInScalarFieldIndex,
                         m_currentOutScalarFieldIndex, live >>
       ELSE /\ m_currentInScalarFieldIndex' =
                   RoleAfterDelete(m_currentInScalarFieldIndex, index, sfCount)
            /\ m_currentOutScalarFieldIndex' =
                   RoleAfterDelete(m_currentOutScalarFieldIndex, index, sfCount)
            /\ m_scalarFields' = FieldsAfterDelete(m_scalarFields, index)
            /\ live' = live - 1
    /\ lastOp' = [op |-> "deleteScalarField", index |-> index]
    /\ ret' = Void
    /\ UNCHANGED << m_points, ptCapacity, sfCapacity, m_currentPointIndex,
                    m_bbox >>

\* NameFree with a scan that stops one field short
NameFree_ShortScan(sfs, newName) ==
    IndexByName(SubSeq(sfs, 1, Len(sfs) - 1), newName) < 0

\* renameScalarField, line 370: whether newName may be given to a field
NameFree(sfs, newName) == IndexByName(sfs, newName) < 0

\* PointCloud::renameScalarField(index, newName)
renameScalarField(index, newName) ==
    /\ IF NameFree(m_scalarFields, newName) /\ HasScalarField(index)
       THEN /\ m_scalarFields' =
                   [m_scalarFields EXCEPT ![index + 1].name = newName]
            /\ ret' = Returned(TRUE)
       ELSE /\ ret' = Returned(FALSE)
            /\ UNCHANGED m_scalarFields
    /\ lastOp' = [op |-> "renameScalarField", index |-> index,
                  name |-> newName]
    /\ UNCHANGED << m_points, ptCapacity, sfCapacity,
                    m_currentInScalarFieldIndex, m_currentOutScalarFieldIndex,
                    m_currentPointIndex, m_bbox, live >>

\* an input field sized to the number of points
EnableCount_Size(ptCap, sz) == sz

\* the length enableScalarField gives the input field: m_points.capacity()
EnableCount(ptCap, sz) == ptCap

\* PointCloud::enableScalarField() on a cloud: the outcomes
\* [sfs, sfCap, live, in, out, ret]
EnableOutcomes(sfs, sfCap, lv, sz, ptCap, in, out) ==
    LET Valid(ix, fs) == ix >= 0 /\ ix < Len(fs)
        \* lines 223-243: the input role resolved, or the failure of line 237
        resolved ==
            IF Valid(in, sfs)
            THEN {[sfs |-> sfs, sfCap |-> sfCap, live |-> lv, in |-> in]}
            ELSE IF IndexByName(sfs, "Default") >= 0
            THEN {[sfs |-> sfs, sfCap |-> sfCap, live |-> lv,
                   in |-> IndexByName(sfs, "Default")]}
            ELSE { [sfs |-> a.sfs, sfCap |-> a.sfCap, live |-> a.live,
                    in |-> a.ret]
                     : a \in AddScalarFieldOutcomes(sfs, sfCap, lv, sz,
                                                    "Default") }
    IN  UNION {
            IF r.in < 0
            THEN {[sfs |-> r.sfs, sfCap |-> r.sfCap, live |-> r.live,
                   in |-> r.in, out |-> out, ret |-> FALSE]}
            ELSE { [sfs |-> [r.sfs EXCEPT ![r.in + 1] = o.sf],
                    sfCap |-> r.sfCap, live |-> r.live, in |-> r.in,
                    out |-> IF Valid(out, r.sfs) THEN out ELSE r.in,
                    ret |-> o.ok]
                     : o \in resizeSafe(r.sfs[r.in + 1],
                                        EnableCount(ptCap, sz)) }
            : r \in resolved }

\* PointCloud::enableScalarField()
enableScalarField ==
    /\ \E o \in EnableOutcomes(m_scalarFields, sfCapacity, live, size,
                               ptCapacity, m_currentInScalarFieldIndex,
                               m_currentOutScalarFieldIndex) :
         /\ m_scalarFields' = o.sfs
         /\ sfCapacity' = o.sfCap
         /\ live' = o.live
         /\ m_currentInScalarFieldIndex' = o.in
         /\ m_currentOutScalarFieldIndex' = o.out
         /\ ret' = Returned(o.ret)
    /\ lastOp' = [op |-> "enableScalarField"]
    /\ UNCHANGED << m_points, ptCapacity, m_currentPointIndex, m_bbox >>

\* PointCloud::setCurrentInScalarField(index)
setCurrentInScalarField(index) ==
    /\ m_currentInScalarFieldIndex' = index
    /\ lastOp' = [op |-> "setCurrentInScalarField", index |-> index]
    /\ ret' = Void
    /\ UNCHANGED << m_points, ptCapacity, m_scalarFields, sfCapacity,
                    m_currentOutScalarFieldIndex, m_currentPointIndex, m_bbox,
                    live >>

\* PointCloud::setCurrentOutScalarField(index)
setCurrentOutScalarField(index) ==
    /\ m_currentOutScalarFieldIndex' = index
    /\ lastOp' = [op |-> "setCurrentOutScalarField", index |-> index]
    /\ ret' = Void
    /\ UNCHANGED << m_points, ptCapacity, m_scalarFields, sfCapacity,
                    m_currentInScalarFieldIndex, m_currentPointIndex, m_bbox,
                    live >>

\* PointCloud::setPointScalarValue(pointIndex, value): defined only with an
\* input role designated (the assert of line 256) and a slot that exists
setPointScalarValue(pointIndex, value) ==
    /\ HasScalarField(m_currentInScalarFieldIndex)
    /\ pointIndex < Len(m_scalarFields[m_currentInScalarFieldIndex + 1].vals)
    /\ m_scalarFields' =
           [m_scalarFields EXCEPT
               ![m_currentInScalarFieldIndex + 1].vals[pointIndex + 1] = value]
    /\ lastOp' = [op |-> "setPointScalarValue", pointIndex |-> pointIndex,
                  value |-> value]
    /\ ret' = Void
    /\ UNCHANGED << m_points, ptCapacity, sfCapacity,
                    m_currentInScalarFieldIndex, m_currentOutScalarFieldIndex,
                    m_currentPointIndex, m_bbox, live >>


(***************************************************************************)
(* swapPoints                                                              *)
(***************************************************************************)
\* values an out-of-range read may find beside a field's storage
Garbage == {0, 9}

\* ScalarField::swap(i, j): the outcomes [sf, threw].  With both slots in
\* the field the two values are exchanged.  A slot beyond the field's length
\* is an out-of-range access: the call is left by an exception, or it goes
\* on with whatever the access found, an existing slot receiving any value.
SFSwapOutcomes(sf, i, j) ==
    LET n == Len(sf.vals)
    IN  IF i < n /\ j < n
        THEN {[sf |-> [sf EXCEPT !.vals = VectorSwap(sf.vals, i, j)],
               threw |-> FALSE]}
        ELSE {[sf |-> sf, threw |-> TRUE]}
             \cup (IF i >= n /\ j >= n
                   THEN {[sf |-> sf, threw |-> FALSE]}
                   ELSE { [sf |-> [sf EXCEPT !.vals[Min2(i, j) + 1] = g],
                           threw |-> FALSE] : g \in Garbage })

\* swapPoints, lines 393-396: the loop over the fields from field k (1-based)
RECURSIVE SwapFields(_, _, _, _)
SwapFields(sfs, k, i, j) ==
    IF k > Len(sfs) THEN {[sfs |-> sfs, threw |-> FALSE]}
    ELSE UNION {
        IF o.threw THEN {[sfs |-> sfs, threw |-> TRUE]}
        ELSE SwapFields([sfs EXCEPT ![k] = o.sf], k + 1, i, j)
        : o \in SFSwapOutcomes(sfs[k], i, j) }

\* swapPoints, lines 384-389: the call returns at once
SwapIsNoOp(pts, firstIndex, secondIndex) ==
    \/ firstIndex = secondIndex
    \/ firstIndex >= Len(pts)
    \/ secondIndex >= Len(pts)

\* PointCloud::swapPoints(firstIndex, secondIndex) on points pts and fields
\* sfs: the outcomes [points, sfs, ret]
SwapPointsOutcomes(pts, sfs, firstIndex, secondIndex) ==
    IF SwapIsNoOp(pts, firstIndex, secondIndex)
    THEN {[points |-> pts, sfs |-> sfs, ret |-> Void]}
    ELSE { [points |-> VectorSwap(pts, firstIndex, secondIndex),
            sfs |-> f.sfs,
            ret |-> IF f.threw THEN Threw("out_of_range") ELSE Void]
             : f \in SwapFields(sfs, 1, firstIndex, secondIndex) }

\* PointCloud::swapPoints(firstIndex, secondIndex)
swapPoints(firstIndex, secondIndex) ==
    /\ \E o \in SwapPointsOutcomes(m_points, m_scalarFields, firstIndex,
                                   secondIndex) :
         /\ m_points' = o.points
         /\ m_scalarFields' = o.sfs
         /\ ret' = o.ret
    /\ lastOp' = [op |-> "swapPoints", i |-> firstIndex, j |-> secondIndex,
                  before |-> << m_points, m_scalarFields >>]
    /\ UNCHANGED << ptCapacity, sfCapacity, m_currentInScalarFieldIndex,
                    m_currentOutScalarFieldIndex, m_currentPointIndex, m_bbox,
                    live >>

(***************************************************************************)
(* applyTransformation                                                     *)
(***************************************************************************)
\* a transformation is [s, R, T]: a scale, a 3x3 matrix (<< >> when the
\* matrix is not valid) and a translation
MatVec(R, P) ==
    [r \in 1..3 |-> R[r][1] * P[1] + R[r][2] * P[2] + R[r][3] * P[3]]

\* fabs(s - 1.0) > ZERO_TOLERANCE, on integer scales
ScaleApplies(trans) == trans.s # 1
\* trans.R.isValid()
RotationApplies(trans) == trans.R # << >>
\* trans.T.norm() > ZERO_TOLERANCE, on integer vectors
TranslationApplies(trans) ==
    trans.T[1] * trans.T[1] + trans.T[2] * trans.T[2]
        + trans.T[3] * trans.T[3] > 0

\* the three phases with the translation applied first
Transformed_TranslateFirst(trans, P) ==
    LET moved == IF TranslationApplies(trans)
                 THEN [c \in 1..3 |-> P[c] + trans.T[c]] ELSE P
        scaled == IF ScaleApplies(trans)
                  THEN [c \in 1..3 |-> moved[c] * trans.s] ELSE moved
    IN  IF RotationApplies(trans) THEN MatVec(trans.R, scaled) ELSE scaled

\* lines 173-198 on one point
Transformed(trans, P) ==
    LET scaled == IF ScaleApplies(trans)
                  THEN [c \in 1..3 |-> P[c] * trans.s] ELSE P
        rotated == IF RotationApplies(trans) THEN MatVec(trans.R, scaled)
                   ELSE scaled
    IN  IF TranslationApplies(trans)
        THEN [c \in 1..3 |-> rotated[c] + trans.T[c]] ELSE rotated

\* the bounding-box cache after applyTransformation
BBoxAfterTransformation(bb, trans) ==
    IF ScaleApplies(trans) \/ RotationApplies(trans) \/ TranslationApplies(trans)
    THEN Invalidated(bb) ELSE bb

\* PointCloud::applyTransformation(trans)
applyTransformation(trans) ==
    /\ m_points' = [k \in 1..size |-> Transformed(trans, m_points[k])]
    /\ m_bbox' = BBoxAfterTransformation(m_bbox, trans)
    /\ lastOp' = [op |-> "applyTransformation", trans |-> trans]
    /\ ret' = Void
    /\ UNCHANGED << ptCapacity, m_scalarFields, sfCapacity,
                    m_currentInScalarFieldIndex, m_currentOutScalarFieldIndex,
                    m_currentPointIndex, live >>

(***************************************************************************)
(* The point cursor                                                        *)
(***************************************************************************)
\* PointCloud::placeIteratorAtBeginning()
placeIteratorAtBeginning ==
    /\ m_currentPointIndex' = 0
    /\ lastOp' = [op |-> "placeIteratorAtBeginning"]
    /\ ret' = Void
    /\ UNCHANGED << m_points, ptCapacity, m_scalarFields, sfCapacity,
                    m_currentInScalarFieldIndex, m_currentOutScalarFieldIndex,
                    m_bbox, live >>

\* PointCloud::getNextPoint(): the point under the cursor, or 0 (null)
getNextPoint ==
    /\ IF m_currentPointIndex < size
       THEN /\ ret' = Returned(m_points[m_currentPointIndex + 1])
            /\ m_currentPointIndex' = m_currentPointIndex + 1
       ELSE /\ ret' = Returned(<< >>)
            /\ UNCHANGED m_currentPointIndex
    /\ lastOp' = [op |-> "getNextPoint"]
    /\ UNCHANGED << m_points, ptCapacity, m_scalarFields, sfCapacity,
                    m_currentInScalarFieldIndex, m_currentOutScalarFieldIndex,
                    m_bbox, live >>

\* PointCloud::isScalarFieldEnabled()
isScalarFieldEnabled ==
    /\ HasScalarField(m_currentInScalarFieldIndex)
    /\ LET sfValuesCount ==
               Len(m_scalarFields[m_currentInScalarFieldIndex + 1].vals)
       IN  sfValuesCount # 0 /\ sfValuesCount >= size


(***************************************************************************)
(* Environments: the calls a client makes, with their arguments drawn from *)
(* small sets and the bounds of the model as guards.                       *)
(***************************************************************************)
SwapXY == << << 0, 1, 0 >>, << 1, 0, 0 >>, << 0, 0, 1 >> >>

Transformations ==
    { [s |-> 1, R |-> << >>, T |-> Zero3],
      [s |-> 2, R |-> << >>, T |-> Zero3],
      [s |-> 1, R |-> SwapXY, T |-> Zero3],
      [s |-> 1, R |-> << >>, T |-> << 1, 0, 0 >>],
      [s |-> 2, R |-> SwapXY, T |-> << 1, 0, 0 >>] }

BBoxPointArgs == { << 0, 0, 0 >>, << 1, 0, 0 >>, << 0, 1, 0 >>, << NaN, 1, 0 >> }
AddPointArgs == { << x, y, z >> : x \in {0, 1, NaN}, y \in {0, 1, NaN}, z \in {0, NaN} }
Names == { "Default", "A", "B" }
FieldsResizeArgs == { 0, 1 }

\* every coordinate of every point within the modelled range
InRange(pts) ==
    \A k \in 1..Len(pts) : \A c \in 1..3 : pts[k][c] \in 0..MaxCoord

\* no more unowned field objects than the model follows
LeakBounded == live' - Len(m_scalarFields') <= MaxLeak

\* the calls on the points and the bounding box
NextBBox ==
    \/ \E P \in BBoxPointArgs : size < MaxPts /\ addPoint(P)
    \/ \E n \in 0..MaxPts : resize(n)
    \/ \E n \in 0..MaxCap : reserve(n)
    \/ \E i, j \in 0..MaxPts : swapPoints(i, j)
    \/ \E t \in Transformations : applyTransformation(t) /\ InRange(m_points')
    \/ clear
    \/ getBoundingBox

SpecBBox == Init /\ [][NextBBox]_vars

\* the same calls without resize
NextBBoxNoResize ==
    \/ \E P \in BBoxPointArgs : size < MaxPts /\ addPoint(P)
    \/ \E n \in 0..MaxCap : reserve(n)
    \/ \E i, j \in 0..MaxPts : swapPoints(i, j)
    \/ \E t \in Transformations : applyTransformation(t) /\ InRange(m_points')
    \/ clear
    \/ getBoundingBox

SpecBBoxNoResize == Init /\ [][NextBBoxNoResize]_vars

\* addPoint alone, with every kind of argument
NextAdd ==
    \/ \E P \in AddPointArgs : size < MaxPts /\ addPoint(P)
    \/ getBoundingBox

SpecAdd == Init /\ [][NextAdd]_vars

\* the calls on the scalar fields and their roles
NextFields ==
    \/ \E n \in Names :
         sfCount < MaxFields /\ addScalarField(n) /\ LeakBounded
    \/ \E i \in -1..MaxFields : deleteScalarField(i)
    \/ deleteAllScalarFields
    \/ \E i \in -1..MaxFields : \E n \in Names : renameScalarField(i, n)
    \/ /\ enableScalarField
       /\ Len(m_scalarFields') <= MaxFields
       /\ LeakBounded
    \/ \E n \in FieldsResizeArgs : resize(n)
    \/ clear
    \/ \E i \in -1..(sfCount - 1) : setCurrentInScalarField(i)
    \/ \E i \in -1..(sfCount - 1) : setCurrentOutScalarField(i)

SpecFields == Init /\ [][NextFields]_vars


\* growth and shrinkage of a cloud with fields of several lengths
ResizeNames == { "Default", "A" }

NextResize ==
    \/ size < MaxPts /\ addPoint(Zero3)
    \/ \E n \in 0..MaxPts : resize(n)
    \/ \E n \in 0..MaxCap : reserve(n)
    \/ \E n \in ResizeNames : addScalarField(n) /\ LeakBounded
    \/ enableScalarField /\ LeakBounded
    \/ \E i \in 0..(MaxFields - 1) : deleteScalarField(i)

SpecResize == Init /\ [][NextResize]_vars

\* reordering of points that carry scalar values
SwapPointArgs == { << 1, 0, 0 >>, << 0, 1, 0 >> }
SwapNames == { "A", "B" }

\* the point added to a cloud whose life cycle is observed
LifePoint == << 1, 0, 0 >>

\* a cloud filled, measured, given fields and values, and reserved
NextReserve ==
    \/ size < MaxPts /\ addPoint(LifePoint)
    \/ getBoundingBox
    \/ \E n \in 0..MaxCap : reserve(n)
    \/ \E n \in ResizeNames : addScalarField(n) /\ LeakBounded
    \/ enableScalarField /\ LeakBounded
    \/ setPointScalarValue(0, 1)

SpecReserve == Init /\ [][NextReserve]_vars

\* a cloud filled, measured, read through its cursor, given fields and roles,
\* and cleared
NextClear ==
    \/ size < MaxPts /\ addPoint(LifePoint)
    \/ getBoundingBox
    \/ getNextPoint
    \/ \E n \in ResizeNames : addScalarField(n) /\ LeakBounded
    \/ enableScalarField /\ LeakBounded
    \/ clear

SpecClear == Init /\ [][NextClear]_vars

\* a cloud given fields and values, and resized there and back
NextRoundTrip ==
    \/ \E n \in ResizeNames : addScalarField(n) /\ LeakBounded
    \/ enableScalarField /\ LeakBounded
    \/ setPointScalarValue(0, 1)
    \/ \E n, m \in 0..MaxPts : resizeRoundTrip(n, m)

SpecRoundTrip == Init /\ [][NextRoundTrip]_vars

\* the cloud of the scaling example
ExampleCloud == << << 0, 0, 0 >>, << 1, 0, 0 >>, << 0, 1, 0 >> >>

\* the example cloud given a field and roles while empty (no allocation
\* failing), built point by point, measured and transformed
NextTransform ==
    \/ size < Len(ExampleCloud) /\ addPoint(ExampleCloud[size + 1])
    \/ /\ size = 0
       /\ enableScalarField
       /\ ret'.val = TRUE
       /\ live' = Len(m_scalarFields')
    \/ \E t \in Transformations : applyTransformation(t) /\ InRange(m_points')
    \/ getBoundingBox

SpecTransform == Init /\ [][NextTransform]_vars

NextSwap ==
    \/ \E P \in SwapPointArgs : size < MaxPts /\ addPoint(P)
    \/ \E n \in SwapNames : addScalarField(n) /\ LeakBounded
    \/ \E i \in -1..(sfCount - 1) : setCurrentInScalarField(i)
    \/ \E i \in 0..(MaxPts - 1) : setPointScalarValue(i, 1)
    \/ \E i, j \in 0..MaxPts : swapPoints(i, j)

SpecSwap == Init /\ [][NextSwap]_vars

\* every call of every environment
Next == NextBBox \/ NextAdd \/ NextFields \/ NextResize \/ NextSwap

Spec == Init /\ [][Next]_vars

(***************************************************************************)
(* Properties of the scalar-field roles and names                          *)
(***************************************************************************)
RoleOk(role) == role = -1 \/ (role >= 0 /\ role < sfCount)

\* C8: in every reachable state the current-input role index and the
\* current-output role index are each -1 or the index of an owned field.
C8_RolesValid ==
    RoleOk(m_currentInScalarFieldIndex) /\ RoleOk(m_currentOutScalarFieldIndex)

\* a deletion moved the last field to slot 0 and the input role followed it,
\* while the output role was cleared
C8_Witness ==
    /\ lastOp.op = "deleteScalarField"
    /\ lastOp.index = 0
    /\ sfCount >= 1
    /\ m_currentInScalarFieldIndex = 0
    /\ m_currentOutScalarFieldIndex = -1

\* a role across a deletion of the field at index: cleared if it designated
\* that field, else still on the field of the same name
RoleFollows(role, roleAfter, index) ==
    IF role = index \/ role = -1 THEN roleAfter = -1
    ELSE /\ roleAfter >= 0 /\ roleAfter < Len(m_scalarFields')
         /\ m_scalarFields'[roleAfter + 1].name = m_scalarFields[role + 1].name

\* C9: deleteScalarField(index) with a valid index removes exactly the field
\* at index, clears a role that designated it and keeps every other role on
\* the same field (by name); with an out-of-range index nothing changes.
C9_DeleteExact ==
    [][lastOp'.op = "deleteScalarField" =>
        LET index == lastOp'.index
        IN  IF index >= 0 /\ index < sfCount
            THEN /\ Len(m_scalarFields') = sfCount - 1
                 /\ {m_scalarFields'[k] : k \in 1..Len(m_scalarFields')}
                      = {m_scalarFields[k] : k \in (1..sfCount) \ {index + 1}}
                 /\ RoleFollows(m_currentInScalarFieldIndex,
                                m_currentInScalarFieldIndex', index)
                 /\ RoleFollows(m_currentOutScalarFieldIndex,
                                m_currentOutScalarFieldIndex', index)
                 /\ UNCHANGED << m_points, ptCapacity, m_bbox >>
            ELSE UNCHANGED << m_points, ptCapacity, m_scalarFields, sfCapacity,
                              m_currentInScalarFieldIndex,
                              m_currentOutScalarFieldIndex,
                              m_currentPointIndex, m_bbox, live >>]_vars

\* field 0 of several was deleted; the output role, which designated the last
\* field, is now on slot 0 and the input role is cleared
C9_Witness ==
    /\ lastOp.op = "deleteScalarField"
    /\ lastOp.index = 0
    /\ sfCount >= 1
    /\ m_currentOutScalarFieldIndex = 0
    /\ m_currentInScalarFieldIndex = -1

\* C10: no two scalar fields owned by the cloud have the same name.
C10_NamesUnique ==
    \A a, b \in 1..sfCount :
        a # b => m_scalarFields[a].name # m_scalarFields[b].name

\* a rename was refused because another field owns the name
C10_Witness ==
    /\ lastOp.op = "renameScalarField"
    /\ ~ret.val
    /\ HasScalarField(lastOp.index)
    /\ \E k \in 1..sfCount :
         k # lastOp.index + 1 /\ m_scalarFields[k].name = lastOp.name


(***************************************************************************)
(* Properties of the points and the bounding box                           *)
(***************************************************************************)
\* component-wise minimum and maximum of a non-empty point sequence
MinCorner(pts) == [c \in 1..3 |-> SetMin({pts[k][c] : k \in 1..Len(pts)})]
MaxCorner(pts) == [c \in 1..3 |-> SetMax({pts[k][c] : k \in 1..Len(pts)})]

\* C3: in every reachable state, a bounding-box cache marked valid holds the
\* component-wise min/max of the current point sequence.
C3_CacheCoherent ==
    (m_bbox.valid /\ size > 0) =>
        /\ m_bbox.minCorner = MinCorner(m_points)
        /\ m_bbox.maxCorner = MaxCorner(m_points)

\* C4: getBoundingBox called twice in a row returns the same corners, and
\* called next after addPoint, swapPoints or applyTransformation it returns
\* the component-wise min and max of the points.
C4_BBoxFresh ==
    [][lastOp'.op = "getBoundingBox" =>
        /\ lastOp.op = "getBoundingBox" => ret' = ret
        /\ (/\ lastOp.op \in {"addPoint", "swapPoints", "applyTransformation"}
            /\ size > 0)
           => ret'.val = << MinCorner(m_points), MaxCorner(m_points) >>]_vars

\* C5: each addPoint call appends its argument, or (0,0,0) if a component of
\* it is not a number, after the existing points, which it leaves as they
\* are, and leaves the bounding-box cache invalid; so after n calls on an
\* empty cloud size() is n and the k-th point is the k-th argument, sanitized.
C5_AddPointAppends ==
    [][lastOp'.op = "addPoint" =>
        LET P == lastOp'.P
            stored == IF \E c \in 1..3 : P[c] = NaN THEN Zero3 ELSE P
        IN  /\ m_points' = Append(m_points, stored)
            /\ ~m_bbox'.valid]_vars

\* a second point with a not-a-number z was added after a proper first one
C5_Witness ==
    /\ lastOp.op = "addPoint"
    /\ lastOp.P[3] = NaN /\ lastOp.P[1] = 1
    /\ size = 2
    /\ m_points[1] = << 1, 1, 0 >>
    /\ m_points[2] = Zero3
    /\ ~m_bbox.valid


(***************************************************************************)
(* Properties of resize                                                    *)
(***************************************************************************)
\* C1: whenever resize returns false, size() is what it was before the call
\* and every owned scalar field has the length and the min/max it had.
C1_ResizeAtomic ==
    [][(lastOp'.op = "resize" /\ ~ret'.threw /\ ~ret'.val) =>
        /\ Len(m_points') = Len(m_points)
        /\ Len(m_scalarFields') = Len(m_scalarFields)
        /\ \A k \in 1..sfCount :
            /\ Len(m_scalarFields'[k].vals) = Len(m_scalarFields[k].vals)
            /\ m_scalarFields'[k].minVal = m_scalarFields[k].minVal
            /\ m_scalarFields'[k].maxVal = m_scalarFields[k].maxVal]_vars

\* C2: whenever resize(newCount) returns true, size() is newCount and every
\* owned scalar field has length newCount.
C2_ResizeSuccess ==
    (lastOp.op = "resize" /\ ~ret.threw /\ ret.val) =>
        /\ size = lastOp.newCount
        /\ \A k \in 1..sfCount : Len(m_scalarFields[k].vals) = lastOp.newCount

\* a resize to a positive count succeeded on a cloud that owns two fields
C2_Witness ==
    /\ lastOp.op = "resize"
    /\ ~ret.threw /\ ret.val
    /\ lastOp.newCount = 1
    /\ sfCount = 2
    /\ size = 1

(***************************************************************************)
(* Properties of swapPoints                                                *)
(***************************************************************************)
\* sequence `after` is sequence `before` with slots i and j (0-based), which
\* both exist, exchanged and every other slot kept
Exchanged(before, after, i, j) ==
    /\ i < Len(before) /\ j < Len(before)
    /\ Len(after) = Len(before)
    /\ after[i + 1] = before[j + 1]
    /\ after[j + 1] = before[i + 1]
    /\ \A s \in 1..Len(before) : s \notin {i + 1, j + 1} => after[s] = before[s]

\* C6: for valid i # j, swapPoints(i, j) exchanges the points at i and j
\* and, in every owned field, the values at slots i and j, and leaves every
\* other point and slot, the fields' number, order and names, and both roles
\* as they were.
C6_SwapExchanges ==
    [][(/\ lastOp'.op = "swapPoints"
        /\ ~SwapIsNoOp(m_points, lastOp'.i, lastOp'.j)) =>
        /\ ~ret'.threw
        /\ Exchanged(m_points, m_points', lastOp'.i, lastOp'.j)
        /\ Len(m_scalarFields') = Len(m_scalarFields)
        /\ \A k \in 1..sfCount :
            /\ m_scalarFields'[k].name = m_scalarFields[k].name
            /\ Exchanged(m_scalarFields[k].vals, m_scalarFields'[k].vals,
                         lastOp'.i, lastOp'.j)
        /\ UNCHANGED << m_currentInScalarFieldIndex,
                        m_currentOutScalarFieldIndex >>]_vars

\* C7: swapPoints(i, j) called a second time right after swapPoints(i, j),
\* for valid i # j, gives back the points and the scalar-field values of
\* before the first call; with i = j or an index >= size() it changes nothing.
C7_SwapInvolution ==
    [][lastOp'.op = "swapPoints" =>
        IF SwapIsNoOp(m_points, lastOp'.i, lastOp'.j)
        THEN UNCHANGED << m_points, ptCapacity, m_scalarFields, sfCapacity,
                          m_currentInScalarFieldIndex,
                          m_currentOutScalarFieldIndex, m_currentPointIndex,
                          m_bbox, live >>
        ELSE (/\ lastOp.op = "swapPoints"
              /\ lastOp.i = lastOp'.i /\ lastOp.j = lastOp'.j) =>
                /\ ~ret.threw /\ ~ret'.threw
                /\ m_points' = lastOp.before[1]
                /\ m_scalarFields' = lastOp.before[2]]_vars


(***************************************************************************)
(* Supporting facts.  C3_CacheCoherent and C4_BBoxFresh hold under         *)
(* SpecBBoxNoResize: resize is the one operation that leaves a stale cache *)
(* valid.  The two formulas below hold under SpecSwap: swapPoints is exact *)
(* wherever every field is at least size() long.                           *)
(***************************************************************************)
LongFields == \A k \in 1..sfCount : Len(m_scalarFields[k].vals) >= size

SwapExchanges_LongFields ==
    [][(/\ lastOp'.op = "swapPoints"
        /\ ~SwapIsNoOp(m_points, lastOp'.i, lastOp'.j)
        /\ LongFields) =>
        /\ ~ret'.threw
        /\ Exchanged(m_points, m_points', lastOp'.i, lastOp'.j)
        /\ \A k \in 1..sfCount :
            Exchanged(m_scalarFields[k].vals, m_scalarFields'[k].vals,
                      lastOp'.i, lastOp'.j)]_vars

SwapInvolution_LongFields ==
    [][(/\ lastOp'.op = "swapPoints" /\ lastOp.op = "swapPoints"
        /\ lastOp.i = lastOp'.i /\ lastOp.j = lastOp'.j
        /\ ~SwapIsNoOp(m_points, lastOp'.i, lastOp'.j)
        /\ LongFields) =>
        /\ m_points' = lastOp.before[1]
        /\ m_scalarFields' = lastOp.before[2]]_vars


(***************************************************************************)
(* Properties of addScalarField                                            *)
(***************************************************************************)
\* some field of sfs carries the name n
OwnsName(sfs, n) == \E k \in 1..Len(sfs) : sfs[k].name = n

\* C11: addScalarField(name) returns -1 and leaves the field collection as it
\* was when a field of that name exists; when none exists and no allocation
\* fails (the call does not return -1) it returns the old field count, the
\* collection is the old one followed by one new field of that name whose
\* length is size(), and neither role index moves.  Two consecutive calls
\* with one name therefore give a valid index and then -1.
C11_AddScalarField ==
    [][ lastOp'.op = "addScalarField" =>
          /\ ~ret'.threw
          /\ UNCHANGED << m_currentInScalarFieldIndex,
                          m_currentOutScalarFieldIndex >>
          /\ OwnsName(m_scalarFields, lastOp'.name) =>
                (ret'.val = -1 /\ UNCHANGED m_scalarFields)
          /\ (~OwnsName(m_scalarFields, lastOp'.name) /\ ret'.val # -1) =>
                /\ ret'.val = Len(m_scalarFields)
                /\ Len(m_scalarFields') = Len(m_scalarFields) + 1
                /\ SubSeq(m_scalarFields', 1, Len(m_scalarFields))
                     = m_scalarFields
                /\ m_scalarFields'[Len(m_scalarFields')].name = lastOp'.name
                /\ Len(m_scalarFields'[Len(m_scalarFields')].vals) = size
          /\ (lastOp.op = "addScalarField" /\ lastOp.name = lastOp'.name
                /\ ret.val >= 0) => ret'.val = -1 ]_vars

\* a second field was added, with index 1 and one slot, to a cloud of one point
\* whose roles are designated
C11_Witness ==
    /\ lastOp.op = "addScalarField"
    /\ ~ret.threw
    /\ ret.val = 1
    /\ size = 1
    /\ Len(m_scalarFields) = 2
    /\ m_scalarFields[2].name = lastOp.name
    /\ Len(m_scalarFields[2].vals) = 1
    /\ m_currentInScalarFieldIndex = 0



(***************************************************************************)
(* Properties of renameScalarField                                         *)
(***************************************************************************)
\* a field of sfs other than the one at index carries the name n
OtherOwnsName(sfs, index, n) ==
    \E k \in 1..Len(sfs) : k # index + 1 /\ sfs[k].name = n

\* C12: renameScalarField(index, newName) returns false and changes nothing
\* when a field other than the one at index is named newName; otherwise, for
\* a valid index, it returns true, the field at index is named newName and
\* nothing else changes -- also when newName is that field's current name.
C12_Rename ==
    [][ lastOp'.op = "renameScalarField" =>
          LET index == lastOp'.index
              newName == lastOp'.name
          IN  /\ ~ret'.threw
              /\ OtherOwnsName(m_scalarFields, index, newName) =>
                    (ret'.val = FALSE /\ UNCHANGED m_scalarFields)
              /\ (~OtherOwnsName(m_scalarFields, index, newName)
                    /\ index >= 0 /\ index < Len(m_scalarFields)) =>
                    /\ ret'.val = TRUE
                    /\ m_scalarFields' =
                         [m_scalarFields EXCEPT ![index + 1].name = newName]
              /\ UNCHANGED << m_points, m_currentInScalarFieldIndex,
                              m_currentOutScalarFieldIndex, m_bbox >> ]_vars



(***************************************************************************)
(* Properties of enableScalarField                                         *)
(***************************************************************************)
\* index designates a field of sfs
Designates(index, sfs) == index >= 0 /\ index < Len(sfs)

\* C13: after enableScalarField() returned true the input role designates a
\* field: the one it designated before, or else the field named "Default",
\* the existing one or one appended by the call (no other field is added or
\* changed); the output role is unchanged if it was designated, else equal to
\* the input role; and the input field has as many slots as the point
\* sequence has capacity.
C13_EnableSuccess ==
    [][ (lastOp'.op = "enableScalarField" /\ ~ret'.threw /\ ret'.val = TRUE) =>
          LET in == m_currentInScalarFieldIndex
              out == m_currentOutScalarFieldIndex
              inAfter == m_currentInScalarFieldIndex'
              old == m_scalarFields
              new == m_scalarFields'
          IN  /\ Designates(inAfter, new)
              /\ IF Designates(in, old)
                  THEN inAfter = in /\ Len(new) = Len(old)
                  ELSE /\ new[inAfter + 1].name = "Default"
                       /\ IF OwnsName(old, "Default")
                          THEN /\ Len(new) = Len(old)
                               /\ old[inAfter + 1].name = "Default"
                          ELSE /\ Len(new) = Len(old) + 1
                               /\ inAfter = Len(old)
              /\ \A k \in 1..Len(old) : k # inAfter + 1 => new[k] = old[k]
              /\ m_currentOutScalarFieldIndex' =
                   (IF Designates(out, old) THEN out ELSE inAfter)
              /\ Len(new[inAfter + 1].vals) = ptCapacity'
              /\ UNCHANGED << m_points, ptCapacity >> ]_vars

\* enableScalarField returned true on a cloud of capacity 1 without points:
\* the input role went to "Default" at index 1, sized 1, the output role
\* stayed on field 0
C13_Witness ==
    /\ lastOp.op = "enableScalarField"
    /\ ~ret.threw
    /\ ret.val = TRUE
    /\ ptCapacity = 1
    /\ size = 0
    /\ m_currentInScalarFieldIndex = 1
    /\ m_currentOutScalarFieldIndex = 0
    /\ m_scalarFields[2].name = "Default"
    /\ Len(m_scalarFields[2].vals) = 1



\* C14: in every state reached through addPoint, resize, reserve,
\* addScalarField, enableScalarField and deleteScalarField, the field the
\* input role designates (when it designates one) has at least size() slots.
C14_InputFieldCoversPoints ==
    Designates(m_currentInScalarFieldIndex, m_scalarFields) =>
        Len(m_scalarFields[m_currentInScalarFieldIndex + 1].vals) >= size



(***************************************************************************)
(* Properties of reserve and clear                                         *)
(***************************************************************************)
\* C15: reserve(newCapacity), whether it returns true or false, changes
\* neither size() nor the points, nor any field's length, values, name or
\* min/max, nor a role index, nor the cursor, nor the validity of the
\* bounding-box cache; and it returns true only if the point capacity is at
\* least newCapacity and every field has room for newCapacity values.
C15_ReserveFrame ==
    [][ lastOp'.op = "reserve" =>
          /\ ~ret'.threw
          /\ UNCHANGED << m_points, m_currentInScalarFieldIndex,
                          m_currentOutScalarFieldIndex, m_currentPointIndex,
                          m_bbox >>
          /\ Len(m_scalarFields') = Len(m_scalarFields)
          /\ \A k \in 1..Len(m_scalarFields) :
                m_scalarFields'[k] =
                    [m_scalarFields[k] EXCEPT !.cap = m_scalarFields'[k].cap]
          /\ ret'.val = TRUE =>
                /\ ptCapacity' >= lastOp'.newCapacity
                /\ \A k \in 1..Len(m_scalarFields') :
                      m_scalarFields'[k].cap >= lastOp'.newCapacity ]_vars

\* reserve(3) returned true on a cloud of one point with a valid bounding-box
\* cache and two fields, one of them holding a value
C15_Witness ==
    /\ lastOp.op = "reserve"
    /\ lastOp.newCapacity = MaxCap
    /\ ~ret.threw
    /\ ret.val = TRUE
    /\ size = 1
    /\ m_bbox.valid
    /\ Len(m_scalarFields) = 2
    /\ m_scalarFields[1].vals = << 1 >>


\* C16: clear() leaves the cloud with no point, no scalar field (each field
\* it owned released once: the count of live field objects drops by the
\* number of fields owned), both roles at -1, the cursor at 0 and the
\* bounding-box cache invalid; a getNextPoint() that follows returns null.
C16_ClearResets ==
    [][ /\ lastOp'.op = "clear" =>
              /\ m_points' = << >>
              /\ m_scalarFields' = << >>
              /\ live' = live - Len(m_scalarFields)
              /\ m_currentInScalarFieldIndex' = -1
              /\ m_currentOutScalarFieldIndex' = -1
              /\ m_currentPointIndex' = 0
              /\ ~m_bbox'.valid
        /\ (lastOp.op = "clear" /\ lastOp'.op = "getNextPoint") =>
              (~ret'.threw /\ ret'.val = << >>) ]_vars

\* clear() acted on a cloud of two points and two fields whose cursor had
\* advanced and whose bounding-box cache was valid
C16_Witness ==
    /\ lastOp.op = "clear"
    /\ lastOp.before.size = 2
    /\ lastOp.before.fields = 2
    /\ lastOp.before.cursor > 0
    /\ lastOp.before.valid
    /\ size = 0



(***************************************************************************)
(* Properties of resize round trips                                        *)
(***************************************************************************)
\* the stored minimum and maximum of sf are those of its values
StatsCurrent(sf) ==
    Len(sf.vals) > 0 =>
        /\ \E k \in 1..Len(sf.vals) : sf.vals[k] = sf.minVal
        /\ \E k \in 1..Len(sf.vals) : sf.vals[k] = sf.maxVal
        /\ \A k \in 1..Len(sf.vals) :
              sf.minVal <= sf.vals[k] /\ sf.vals[k] <= sf.maxVal

\* C17: for all n and m, when resize(n); resize(m); resize(n) all return
\* true, size() is n, every field has n slots, and every field's stored
\* minimum and maximum are those of the values it then holds.
C17_ResizeRoundTrip ==
    (lastOp.op = "resizeRoundTrip" /\ lastOp.calls = 3
        /\ ~ret.threw /\ ret.val = TRUE) =>
        /\ size = lastOp.n
        /\ \A k \in 1..Len(m_scalarFields) :
              /\ Len(m_scalarFields[k].vals) = lastOp.n
              /\ StatsCurrent(m_scalarFields[k])

\* resize(2); resize(1); resize(2) succeeded on a cloud with two fields, one
\* of which kept the value 1 in its first slot and got a fresh 0 in its second
C17_Witness ==
    /\ lastOp.op = "resizeRoundTrip"
    /\ lastOp.calls = 3
    /\ ~ret.threw
    /\ ret.val = TRUE
    /\ lastOp.n = 2
    /\ lastOp.m = 1
    /\ Len(m_scalarFields) = 2
    /\ m_scalarFields[1].vals = << 1, 0 >>
    /\ m_scalarFields[1].maxVal = 1



(***************************************************************************)
(* Properties of applyTransformation                                       *)
(***************************************************************************)
\* C18: applyTransformation scales (when s differs from 1), then rotates
\* (when R is valid), then translates (when T is not null): every point P
\* becomes R*(s*P)+T, a phase that does not run standing for the identity.
\* If a phase ran the bounding-box cache ends invalid; if none ran the points
\* and the cache are as before.  size(), the fields and the roles never
\* change.  After scaling the cloud (0,0,0), (1,0,0), (0,1,0) by 2, the next
\* getBoundingBox returns the corners (0,0,0) and (2,2,0).
C18_Transformation ==
    [][ /\ lastOp'.op = "applyTransformation" =>
              LET t == lastOp'.trans
                  Rot(P) == IF t.R # << >> THEN MatVec(t.R, P) ELSE P
                  ran == t.s # 1 \/ t.R # << >> \/ t.T # Zero3
              IN  /\ Len(m_points') = Len(m_points)
                  /\ \A k \in 1..Len(m_points) : \A c \in 1..3 :
                        m_points'[k][c] =
                          Rot([d \in 1..3 |-> t.s * m_points[k][d]])[c] + t.T[c]
                  /\ ran => ~m_bbox'.valid
                  /\ ~ran => UNCHANGED << m_points, m_bbox >>
                  /\ UNCHANGED << m_scalarFields, m_currentInScalarFieldIndex,
                                  m_currentOutScalarFieldIndex >>
        /\ (/\ lastOp.op = "applyTransformation"
             /\ lastOp.trans = [s |-> 2, R |-> << >>, T |-> Zero3]
             /\ m_points = << Zero3, << 2, 0, 0 >>, << 0, 2, 0 >> >>
             /\ lastOp'.op = "getBoundingBox") =>
              ret'.val = << Zero3, << 2, 2, 0 >> >> ]_vars

\* scale 2, the rotation that exchanges x and y, and the translation (1,0,0)
\* were applied to the measured cloud (0,0,0), (1,0,0)
C18_Witness ==
    /\ lastOp.op = "applyTransformation"
    /\ lastOp.trans = [s |-> 2, R |-> SwapXY, T |-> << 1, 0, 0 >>]
    /\ m_points = << << 1, 0, 0 >>, << 1, 2, 0 >> >>
    /\ ~m_bbox.valid
    /\ m_bbox.maxCorner = << 1, 0, 0 >>
    /\ Len(m_scalarFields) = 1



(***************************************************************************)
(* Failures of enableScalarField and addScalarField                        *)
(***************************************************************************)
\* the fields of sfs as names and lengths
Shape(sfs) == [k \in 1..Len(sfs) |-> << sfs[k].name, Len(sfs[k].vals) >>]

\* C19: whenever enableScalarField() returns false the cloud owns the same
\* fields, with the same lengths, as before the call, and both role indices
\* have their values of before the call.
C19_EnableFailureClean ==
    [][ (lastOp'.op = "enableScalarField" /\ ~ret'.threw /\ ret'.val = FALSE) =>
          /\ Shape(m_scalarFields') = Shape(m_scalarFields)
          /\ UNCHANGED << m_currentInScalarFieldIndex,
                          m_currentOutScalarFieldIndex >> ]_vars

\* C20: at all times every live scalar field object is a field of the cloud's
\* collection: a field object created by a call of addScalarField that
\* returns -1 has been released, and that call changes neither the
\* collection nor the roles.
C20_NoStrayField ==
    [][ /\ live' = Len(m_scalarFields')
        /\ (lastOp'.op = "addScalarField" /\ ret'.val = -1) =>
              UNCHANGED << m_scalarFields, m_currentInScalarFieldIndex,
                           m_currentOutScalarFieldIndex >> ]_vars



(***************************************************************************)
(* Scalar-field slots reached by swapPoints; enabling and its query        *)
(***************************************************************************)
\* C21: whenever swapPoints(i, j) takes its swapping branch (i # j, both
\* below size()), every field the cloud owns has the slots i and j: its
\* length exceeds both indices.
C21_SwapSlotsExist ==
    [][ (/\ lastOp'.op = "swapPoints"
         /\ lastOp'.i # lastOp'.j
         /\ lastOp'.i < size
         /\ lastOp'.j < size) =>
          \A k \in 1..Len(m_scalarFields) :
              /\ Len(m_scalarFields[k].vals) > lastOp'.i
              /\ Len(m_scalarFields[k].vals) > lastOp'.j ]_vars

\* C22: in the state enableScalarField() leaves when it returns true,
\* isScalarFieldEnabled() is true: an input field is designated, it is not
\* empty and it has at least size() slots.
C22_EnabledAfterEnable ==
    (lastOp.op = "enableScalarField" /\ ~ret.threw /\ ret.val = TRUE) =>
        isScalarFieldEnabled


====
